---- MODULE Spec2Model ----
\* A model of the trading bot: the control loop of main.py, the TradeExecutor of
\* trade.py, the signal generator of strategy.py and the market-data fetch of
\* data_fetch.py, run against a MetaTrader5 terminal (the gateway), which is the
\* environment of the program.
\*
\* Units. A price is an integer counting points of 1/PointsPerUnit of the quote
\* currency; the number Python holds for it is the binary64 nearest to
\* points / PointsPerUnit, and calculate_profit works on those numbers. Time is
\* in seconds.
\*
\* Granularity. Every request to the terminal (positions_get,
\* symbol_info_tick, order_send) is a step of its own, and so is every write
\* to active_trades and last_signal: the terminal changes, and a signal ends
\* the process, between any two of them, and the clock moves between any
\* two of them as well as in the sleeps of main.
EXTENDS Integers, Sequences, FiniteSets, TLC

\* ---------------------------------------------------------------- bounds
MaxTicket == 2          \* the gateway fills no order once this many tickets exist
MaxTime == 60           \* the clock is not written past this value
Stall == 10             \* seconds the clock moves at a time while the program runs or waits
BasePrice == 4          \* the lower of the two quotes the gateway shows, in points
PriceStep == 4          \* distance between the two quotes, in points
Spread == 1             \* ask - bid, in points
MaxBars == 8            \* the longest frame apply_strategy is given on its own

\* ------------------------------------------------------ program constants
HoldSecs == 60          \* trade.py:56
StopLoss == -5          \* trade.py:64
ProfitTarget == 2       \* trade.py:67
ContractSize == 100000  \* trade.py:15
PointsPerUnit == ContractSize  \* the unit of the model's prices (see Units)
trade_amount == 1       \* trade.py:8, lots
SleepNormal == 10       \* main.py:73
SleepBackoff == 60      \* main.py:77
ShortWindow == 3        \* strategy.py:16
LongWindow == 7         \* strategy.py:17
MinTrendInv == 1000     \* strategy.py:35, min_trend_strength = 1/1000 percent

None == "None"
NoTicket == 0
Directions == {"buy", "sell"}
\* mt5.order_send: retcode TRADE_RETCODE_DONE, any other retcode, or no result
\* object at all (the caller's result.retcode then raises AttributeError).
Retcodes == {"done", "rejected", "none"}
PriceLevels == {BasePrice, BasePrice + PriceStep}

\* The bar series the market-data source can return (closing prices, oldest
\* first).
SmallCloses == {1, 2, 3}
LargeCloses == {100000, 100002}

BarSeries ==
    { <<1, 1, 1, 1, 1, 1, 1, 2>>,
      <<2, 2, 2, 2, 3, 2, 2, 1>>,
      <<1, 1, 1, 1, 1, 1, 1, 1>>,
      <<1, 2, 3>> }

VARIABLES
    positions,      \* gateway: the open positions of the symbol, as positions_get lists them
    nextTicket,     \* gateway: the ticket the next filled order gets
    bid,            \* gateway: symbol_info_tick(symbol).bid
    now,            \* the wall clock, datetime.now()
    active_trades,  \* TradeExecutor.active_trades: ticket -> [start_time, entry_price]
    last_signal,    \* TradeExecutor.last_signal
    pc,             \* where the program stands: the next request or write it makes
    bars,           \* main: data['close'] of the current iteration, <<>> when data is None
    signal_col,     \* main: data['signal'] after apply_strategy, <<>> before it
    latest_signal,  \* main: data['signal'].iloc[-1] of the current iteration
    due,            \* manage_trades: the positions of its list still to be closed
    cq,             \* the list a running call got from positions_get, what is left of it
    quote,          \* <<price>> of the request being built, from symbol_info_tick; else <<>>
    current_time,   \* manage_trades: <<clock>> as read at line 41, until the loop has used it
    result,         \* the answer of the last order_send, until it is looked at
    entry,          \* history: what execute_trade found when the running call began
    orders,         \* history: the orders sent to the gateway in the current iteration
    calls,          \* history: the TradeExecutor methods called in the current iteration
    raised,         \* history: the methods in which an exception was raised, same iteration
    bot_tickets,    \* history: the tickets of the positions execute_trade opened
    rep             \* history: repetition of one signal with nothing happening in between

vars == <<positions, nextTicket, bid, now, active_trades, last_signal, pc,
          bars, signal_col, latest_signal, due, cq, quote, current_time, result,
          entry,
          orders, calls, raised, bot_tickets, rep>>

ask == bid + Spread

\* ------------------------------------------------------------ strategy.py
RECURSIVE SumCloses(_, _, _)
SumCloses(close, from, to) ==
    IF from > to THEN 0 ELSE close[to] + SumCloses(close, from, to - 1)

\* rolling(window).mean() at index i (1-based) is defined from i = window on;
\* WindowSum is window times that mean.
WindowSum(close, window, i) == SumCloses(close, i - window + 1, i)

\* A crossover that also counts equal averages.
crossover_OrEqual(close, i) ==
    IF i >= LongWindow /\ i >= ShortWindow
       /\ LongWindow * WindowSum(close, ShortWindow, i)
            >= ShortWindow * WindowSum(close, LongWindow, i)
    THEN 1 ELSE 0

\* (SMA_Short > SMA_Long).astype(int); a comparison with NaN is False.
crossover(close, i) ==
    IF i >= LongWindow /\ i >= ShortWindow
       /\ LongWindow * WindowSum(close, ShortWindow, i)
            > ShortWindow * WindowSum(close, LongWindow, i)
    THEN 1 ELSE 0

Abs(x) == IF x < 0 THEN 0 - x ELSE x

\* A strategy that never drops a signal for a weak trend.
TrendTooWeak_Never(close, i) == FALSE

\* trend_strength < min_trend_strength, where
\* trend_strength = |short - long| / long * 100 and long > 0; False on NaN.
TrendTooWeak(close, i) ==
    /\ i >= LongWindow /\ i >= ShortWindow
    /\ Abs(LongWindow * WindowSum(close, ShortWindow, i)
             - ShortWindow * WindowSum(close, LongWindow, i)) * 100 * MinTrendInv
         < ShortWindow * WindowSum(close, LongWindow, i)

\* data['signal'] at index i (1-based) after apply_strategy.
\* crossover.diff() is NaN at the first index, which equals neither 1 nor -1.
apply_strategy(close, i) ==
    LET change == crossover(close, i) - crossover(close, i - 1)
        raw == IF i > 1 /\ change = 1 THEN "buy"
               ELSE IF i > 1 /\ change = 0 - 1 THEN "sell"
               ELSE None
    IN IF TrendTooWeak(close, i) THEN None ELSE raw

\* The signal column apply_strategy returns for the closes of a frame.
signal_column(close) == [i \in 1..Len(close) |-> apply_strategy(close, i)]

\* ------------------------------------------------- binary64 arithmetic
\* Python floats are IEEE 754 binary64.  A magnitude is written in limbs of
\* 14 bits, least significant first, counting units of 2^-84 (limb 7 is the units limb): fine enough to
\* hold the binary64 of every quote from one point (0.00001) upwards, and
\* every difference and product calculate_profit forms, exactly.
Limb == 2^14

\* Bring raw limbs into range, carrying from the least significant limb up.
Normalize(raw) ==
    LET c2 == raw[1] \div Limb
        c3 == (raw[2] + c2) \div Limb
        c4 == (raw[3] + c3) \div Limb
        c5 == (raw[4] + c4) \div Limb
        c6 == (raw[5] + c5) \div Limb
        c7 == (raw[6] + c6) \div Limb
        c8 == (raw[7] + c7) \div Limb
        c9 == (raw[8] + c8) \div Limb
        c10 == (raw[9] + c9) \div Limb
    IN <<raw[1] % Limb, (raw[2] + c2) % Limb, (raw[3] + c3) % Limb,
         (raw[4] + c4) % Limb, (raw[5] + c5) % Limb, (raw[6] + c6) % Limb,
         (raw[7] + c7) % Limb, (raw[8] + c8) % Limb, (raw[9] + c9) % Limb,
         (raw[10] + c10) % Limb>>

Add(x, y) ==
    Normalize(<<x[1] + y[1], x[2] + y[2], x[3] + y[3], x[4] + y[4],
                x[5] + y[5], x[6] + y[6], x[7] + y[7], x[8] + y[8],
                x[9] + y[9], x[10] + y[10]>>)
\* x - y for x >= y.
Sub(x, y) ==
    Normalize(<<x[1] - y[1], x[2] - y[2], x[3] - y[3], x[4] - y[4],
                x[5] - y[5], x[6] - y[6], x[7] - y[7], x[8] - y[8],
                x[9] - y[9], x[10] - y[10]>>)
MulSmall(x, n) ==
    Normalize(<<x[1] * n, x[2] * n, x[3] * n, x[4] * n, x[5] * n, x[6] * n,
                x[7] * n, x[8] * n, x[9] * n, x[10] * n>>)

Less(x, y) ==
    IF x[10] # y[10] THEN x[10] < y[10]
    ELSE IF x[9] # y[9] THEN x[9] < y[9]
    ELSE IF x[8] # y[8] THEN x[8] < y[8]
    ELSE IF x[7] # y[7] THEN x[7] < y[7]
    ELSE IF x[6] # y[6] THEN x[6] < y[6]
    ELSE IF x[5] # y[5] THEN x[5] < y[5]
    ELSE IF x[4] # y[4] THEN x[4] < y[4]
    ELSE IF x[3] # y[3] THEN x[3] < y[3]
    ELSE IF x[2] # y[2] THEN x[2] < y[2]
    ELSE x[1] < y[1]

\* Long division by the small number d, from the most significant limb down.
DivSmall(x, d) ==
    LET r9 == x[10] % d
        r8 == (r9 * Limb + x[9]) % d
        r7 == (r8 * Limb + x[8]) % d
        r6 == (r7 * Limb + x[7]) % d
        r5 == (r6 * Limb + x[6]) % d
        r4 == (r5 * Limb + x[5]) % d
        r3 == (r4 * Limb + x[4]) % d
        r2 == (r3 * Limb + x[3]) % d
        r1 == (r2 * Limb + x[2]) % d
    IN [q |-> <<(r1 * Limb + x[1]) \div d, (r2 * Limb + x[2]) \div d,
                (r3 * Limb + x[3]) \div d, (r4 * Limb + x[4]) \div d,
                (r5 * Limb + x[5]) \div d, (r6 * Limb + x[6]) \div d,
                (r7 * Limb + x[7]) \div d, (r8 * Limb + x[8]) \div d,
                (r9 * Limb + x[9]) \div d, x[10] \div d>>,
        r |-> (r1 * Limb + x[1]) % d]

\* Bit k of x, bit 0 being the least significant, and the number of bits.
BitAt(x, k) == (x[(k \div 14) + 1] \div 2^(k % 14)) % 2
\* The number of bits of a limb.
LimbBits(v) ==
    IF v >= 2^13 THEN 14
    ELSE IF v >= 2^12 THEN 13
    ELSE IF v >= 2^11 THEN 12
    ELSE IF v >= 2^10 THEN 11
    ELSE IF v >= 2^9 THEN 10
    ELSE IF v >= 2^8 THEN 9
    ELSE IF v >= 2^7 THEN 8
    ELSE IF v >= 2^6 THEN 7
    ELSE IF v >= 2^5 THEN 6
    ELSE IF v >= 2^4 THEN 5
    ELSE IF v >= 2^3 THEN 4
    ELSE IF v >= 2^2 THEN 3
    ELSE IF v >= 2^1 THEN 2
    ELSE IF v >= 2^0 THEN 1
    ELSE 0

\* The most significant limb that is not zero (1 for zero).
TopLimb(x) ==
    IF x[10] # 0 THEN 10
    ELSE IF x[9] # 0 THEN 9
    ELSE IF x[8] # 0 THEN 8
    ELSE IF x[7] # 0 THEN 7
    ELSE IF x[6] # 0 THEN 6
    ELSE IF x[5] # 0 THEN 5
    ELSE IF x[4] # 0 THEN 4
    ELSE IF x[3] # 0 THEN 3
    ELSE IF x[2] # 0 THEN 2
    ELSE 1
BitLen(x) == 14 * (TopLimb(x) - 1) + LimbBits(x[TopLimb(x)])

\* The n least significant limbs of x are zero.
LowZero(x, n) ==
    /\ (n < 1 \/ x[1] = 0)
    /\ (n < 2 \/ x[2] = 0)
    /\ (n < 3 \/ x[3] = 0)
    /\ (n < 4 \/ x[4] = 0)
    /\ (n < 5 \/ x[5] = 0)
    /\ (n < 6 \/ x[6] = 0)
    /\ (n < 7 \/ x[7] = 0)
    /\ (n < 8 \/ x[8] = 0)
    /\ (n < 9 \/ x[9] = 0)

\* Limb i of x with the s lowest bits cleared, and of 2^s.
Cleared(x, s, i) ==
    IF i < (s \div 14) + 1 THEN 0
    ELSE IF i = (s \div 14) + 1 THEN x[i] - (x[i] % 2^(s % 14))
    ELSE x[i]
PowerOfTwo(s, i) == IF i = (s \div 14) + 1 THEN 2^(s % 14) ELSE 0

\* Round to 53 significant bits, ties to even; sticky says that the exact
\* value has something below the last bit of x.
Round53(x, sticky) ==
    LET s == BitLen(x) - 53
        below == \/ sticky
                 \/ ~LowZero(x, (s - 1) \div 14)
                 \/ x[((s - 1) \div 14) + 1] % 2^((s - 1) % 14) # 0
        up == BitAt(x, s - 1) = 1 /\ (below \/ BitAt(x, s) = 1)
        kept == <<Cleared(x, s, 1), Cleared(x, s, 2), Cleared(x, s, 3),
                  Cleared(x, s, 4), Cleared(x, s, 5), Cleared(x, s, 6),
                  Cleared(x, s, 7), Cleared(x, s, 8), Cleared(x, s, 9),
                  Cleared(x, s, 10)>>
        ulp == <<PowerOfTwo(s, 1), PowerOfTwo(s, 2), PowerOfTwo(s, 3),
                 PowerOfTwo(s, 4), PowerOfTwo(s, 5), PowerOfTwo(s, 6),
                 PowerOfTwo(s, 7), PowerOfTwo(s, 8), PowerOfTwo(s, 9),
                 PowerOfTwo(s, 10)>>
    IN IF s <= 0 THEN x ELSE IF up THEN Add(kept, ulp) ELSE kept

\* The binary64 nearest to a quote of p points, p / 100000: the price the
\* terminal hands to Python.
Double(p) ==
    LET d == DivSmall(Normalize(<<0, 0, 0, 0, 0, 0, p, 0, 0, 0>>), PointsPerUnit)
    IN Round53(d.q, d.r # 0)

\* x - y and x * n in binary64; a float is [neg, mag].
FSub(x, y) ==
    IF Less(x, y) THEN [neg |-> TRUE, mag |-> Round53(Sub(y, x), FALSE)]
    ELSE [neg |-> FALSE, mag |-> Round53(Sub(x, y), FALSE)]

FMul(x, n) == [neg |-> x.neg, mag |-> Round53(MulSmall(x.mag, n), FALSE)]

\* float(n) for an integer n, which Python compares a float with exactly.
Float(n) ==
    [neg |-> n < 0,
     mag |-> Normalize(<<0, 0, 0, 0, 0, 0, IF n < 0 THEN 0 - n ELSE n, 0, 0, 0>>)]

\* x < y for floats; minus zero and zero are equal.
FLess(x, y) ==
    IF x.neg = y.neg
    THEN IF x.neg THEN Less(y.mag, x.mag) ELSE Less(x.mag, y.mag)
    ELSE x.neg /\ (x.mag # Float(0).mag \/ y.mag # Float(0).mag)

\* profit <= n, profit >= n and profit > n for a float profit and an
\* integer n.
ProfitLE(profit, n) == ~FLess(Float(n), profit)
ProfitGE(profit, n) == ~FLess(profit, Float(n))
ProfitGT(profit, n) == FLess(Float(n), profit)

\* --------------------------------------------------------------- trade.py
Opposite(d) == IF d = "buy" THEN "sell" ELSE "buy"

\* (current_price - price_open) * volume * 100000 for a buy, (price_open -
\* current_price) * volume * 100000 for a sell, evaluated left to right in
\* binary64. The result is the float itself, [neg, mag].
calculate_profit(position, current_price) ==
    LET diff == IF position.type = "buy"
                THEN FSub(Double(current_price), Double(position.price_open))
                ELSE FSub(Double(position.price_open), Double(current_price))
    IN FMul(FMul(diff, position.volume), ContractSize)

has_open_positions(pos) == Len(pos) > 0

get_position_type(pos) == IF Len(pos) > 0 THEN pos[1].type ELSE None

TicketsOf(pos) == {pos[i].ticket : i \in 1..Len(pos)}

RemovePosition(pos, ticket) == SelectSeq(pos, LAMBDA p : p.ticket # ticket)

DropKey(f, k) == [t \in DOMAIN f \ {k} |-> f[t]]

\* Mutant of close_matches: the ticket it is given does not narrow the list.
close_matches_AnyTicket(pos, position_type, position_ticket) ==
    SelectSeq(pos, LAMBDA p : position_type = None \/ p.type = position_type)

\* close_trade, lines 82-91: the positions of the list it fetched that pass
\* the ticket filter and the direction filter, in the order of the list.
close_matches(pos, position_type, position_ticket) ==
    SelectSeq(pos, LAMBDA p :
        /\ position_ticket = NoTicket \/ p.ticket = position_ticket
        /\ position_type = None \/ p.type = position_type)

\* Mutant of CloseShadow: the entry is dropped whatever the gateway answered.
CloseShadow_Always(active, ticket, retcode) ==
    IF ticket \in DOMAIN active THEN DropKey(active, ticket) ELSE active

\* close_trade, lines 110-115: what the result of the offsetting order does to
\* the shadow map.
CloseShadow(active, ticket, retcode) ==
    IF retcode # "done" THEN active
    ELSE IF ticket \in DOMAIN active THEN DropKey(active, ticket) ELSE active

\* Mutant of ExitRule: the holding threshold is not checked.
ExitRule_NoHold(time_open, profit) ==
    IF ProfitGT(profit, 0) THEN "profit"
    ELSE IF ProfitLE(profit, StopLoss) THEN "stop_loss"
    ELSE IF ProfitGE(profit, ProfitTarget) THEN "target"
    ELSE None

\* Mutant of ExitRule: the stop-loss branch is missing.
ExitRule_NoStopLoss(time_open, profit) ==
    IF time_open >= HoldSecs
    THEN IF ProfitGT(profit, 0) THEN "profit"
         ELSE IF ProfitGE(profit, ProfitTarget) THEN "target"
         ELSE None
    ELSE None

\* Mutant of ExitRule: the stop-loss closes only below the limit.
ExitRule_StrictStop(time_open, profit) ==
    IF time_open >= HoldSecs
    THEN IF ProfitGT(profit, 0) THEN "profit"
         ELSE IF ~ProfitGE(profit, StopLoss) THEN "stop_loss"
         ELSE IF ProfitGE(profit, ProfitTarget) THEN "target"
         ELSE None
    ELSE None

\* manage_trades, lines 56-69: the exit rule that applies to a position open
\* for time_open seconds with the given profit, None when it is left open.
ExitRule(time_open, profit) ==
    IF time_open >= HoldSecs
    THEN IF ProfitGT(profit, 0) THEN "profit"
         ELSE IF ProfitLE(profit, StopLoss) THEN "stop_loss"
         ELSE IF ProfitGE(profit, ProfitTarget) THEN "target"
         ELSE None
    ELSE None

\* manage_trades, lines 44-69, for one position of its list: the rule under
\* which it calls close_trade for the position, None when it does not. tick
\* is the bid of the quote fetched at line 42, clock the time read at line 41.
ManageRule(position, tick, active, clock) ==
    IF position.ticket \notin DOMAIN active THEN None
    ELSE ExitRule(clock - active[position.ticket].start_time,
                  calculate_profit(position,
                      IF position.type = "buy" THEN tick ELSE tick + Spread))

\* The close_trade calls the loop of manage_trades makes, in the order of the
\* list: a later decision does not depend on an earlier close, which removes
\* the entry of its own ticket only.
RECURSIVE due_positions(_, _, _, _, _)
due_positions(snap, i, tick, active, clock) ==
    IF i > Len(snap) THEN <<>>
    ELSE LET rule == ManageRule(snap[i], tick, active, clock)
             rest == due_positions(snap, i + 1, tick, active, clock)
         IN IF rule = None THEN rest
            ELSE <<[ticket |-> snap[i].ticket, why |-> rule]>> \o rest

\* Mutant of OpenShadow: the entry is written whatever the gateway answered.
OpenShadow_Always(active, retcode, order, price) ==
    (order :> [start_time |-> now, entry_price |-> price]) @@ active

\* execute_trade, lines 170-176: what the result of the opening order does to
\* the shadow map.
OpenShadow(active, retcode, order, price) ==
    IF retcode = "done"
    THEN (order :> [start_time |-> now, entry_price |-> price]) @@ active
    ELSE active

\* Mutant of OpenLastSignal: last_signal is set whatever the gateway answered.
OpenLastSignal_Always(last, retcode, signal) == signal

\* execute_trade, lines 170 and 177: what it does to last_signal.
OpenLastSignal(last, retcode, signal) ==
    IF retcode = "done" THEN signal ELSE last

\* ------------------------------------------------------------------ state
NoRep == [sig |-> None, n |-> 0]
NoTrades == [t \in {} |-> 0]
NoQuote == <<>>
NoClock == <<>>
NoResult == [retcode |-> None, order |-> NoTicket]
NoEntry == [types |-> <<>>, tracked |-> {}]

Init ==
    /\ positions = <<>>
    /\ nextTicket = 1
    /\ bid \in PriceLevels
    /\ now = 0
    /\ active_trades = NoTrades
    /\ last_signal = None
    /\ pc = "fetch"
    /\ bars = <<>>
    /\ signal_col = <<>>
    /\ latest_signal = None
    /\ due = <<>>
    /\ cq = <<>>
    /\ quote = NoQuote
    /\ current_time = NoClock
    /\ result = NoResult
    /\ entry = NoEntry
    /\ orders = <<>>
    /\ calls = <<>>
    /\ raised = {}
    /\ bot_tickets = {}
    /\ rep = NoRep

gateway == <<positions, nextTicket, bid>>

\* What mt5.positions_get(symbol=symbol) can return: the open positions, or
\* None when the terminal does not answer, which each of its callers takes
\* for an empty list (trade.py lines 23, 28, 38, 78).
positions_get == {positions, <<>>}
executor == <<active_trades, last_signal>>
frame == <<bars, signal_col>>
locals == <<due, cq, quote, current_time, result>>

\* close_trade runs for execute_trade while no manage_trades loop is open.
ClosePcs == {"c_get", "c_tick", "c_send", "c_after"}
OpenPcs == {"x_tick", "x_send", "x_after", "x_sig"}
InManage == pc = "m_tick" \/ (pc \in ClosePcs /\ due # <<>>)
InExecute == pc \in OpenPcs \/ (pc \in ClosePcs /\ due = <<>>)

\* ---------------------------------------------------------------- main.py
\* Lines 35-60 of an iteration: fetch_data returns None (data_fetch.py, lines
\* 31-33, 37-39, 48-53) or the bars, apply_strategy adds the signal column and
\* the signal of the last bar decides whether execute_trade is called.
\* A loop that treats missing data as a failure of the cycle.
FetchNone_Backoff ==
    /\ pc = "fetch"
    /\ pc' = "backoff"
    /\ bars' = <<>>
    /\ signal_col' = <<>>
    /\ latest_signal' = None
    /\ UNCHANGED <<gateway, now, executor, locals, entry, orders, calls, raised,
                   bot_tickets, rep>>

FetchNone ==
    /\ pc = "fetch"
    /\ pc' = "sleep"
    /\ bars' = <<>>
    /\ signal_col' = <<>>
    /\ latest_signal' = None
    /\ UNCHANGED <<gateway, now, executor, locals, entry, orders, calls, raised,
                   bot_tickets, rep>>

FetchData ==
    /\ pc = "fetch"
    /\ \E close \in BarSeries :
         /\ bars' = close
         /\ signal_col' = signal_column(close)
         /\ latest_signal' = signal_col'[Len(close)]
         /\ pc' = IF latest_signal' \in Directions THEN "execute" ELSE "manage"
    /\ UNCHANGED <<gateway, now, executor, locals, entry, orders, calls, raised,
                   bot_tickets, rep>>

\* The repetition history when a call execute_trade(signal) begins: was_empty
\* says that no position is open. n counts the calls with this signal in a
\* row, the first of them made with no position open. Anything else that
\* happens starts the count again: a change at the terminal, an order of
\* manage_trades, an order the gateway does not fill, an exception.
NextRep(signal, was_empty) ==
    IF rep.sig = signal /\ rep.n >= 1 THEN [sig |-> signal, n |-> 2]
    ELSE IF was_empty THEN [sig |-> signal, n |-> 1]
    ELSE NoRep

\* execute_trade hands control back to main: to manage_trades (line 64) when
\* it returns, to the except clause (line 75) when it raises.
ExecuteReturns(to) ==
    /\ pc' = to
    /\ entry' = NoEntry

\* main.py line 58, trade.py lines 123-135: execute_trade(latest_signal,
\* SYMBOL) returns at once, on last_signal or on the direction of the first
\* position positions_get lists (line 27).
ExecuteIgnored ==
    /\ pc = "execute"
    /\ \/ latest_signal = last_signal
       \/ /\ latest_signal # last_signal
          /\ \E seen \in positions_get :
                latest_signal = get_position_type(seen)
    /\ pc' = "manage"
    /\ calls' = Append(calls, "execute")
    /\ rep' = NextRep(latest_signal, Len(positions) = 0)
    /\ UNCHANGED <<gateway, now, executor, frame, latest_signal, locals, entry,
                   orders, raised, bot_tickets>>

\* trade.py lines 123-140 or 153: neither check stops the call, which goes on
\* to close_trade for the opposite direction.
ExecuteStart ==
    /\ pc = "execute"
    /\ latest_signal # last_signal
    /\ \E seen \in positions_get :
          /\ latest_signal # get_position_type(seen)
          /\ entry' = [types |-> [i \in 1..Len(seen) |-> seen[i].type],
                       tracked |-> DOMAIN active_trades]
    /\ pc' = "c_get"
    /\ calls' = Append(calls, "execute")
    /\ rep' = NextRep(latest_signal, Len(positions) = 0)
    /\ UNCHANGED <<gateway, now, executor, frame, latest_signal, locals, orders,
                   raised, bot_tickets>>

\* close_trade hands control back to its caller: to the next position of
\* manage_trades' loop (or out of manage_trades, to main.py line 73), or to
\* line 148 or 160 of execute_trade.
CloseReturns ==
    /\ cq' = <<>>
    /\ IF due # <<>>
       THEN /\ due' = Tail(due)
            /\ pc' = IF Tail(due) = <<>> THEN "sleep" ELSE "c_get"
       ELSE /\ due' = due
            /\ pc' = "x_tick"

\* trade.py lines 77-91: close_trade asks positions_get for the list and keeps
\* what its filters let through; with nothing to do it returns.
CloseGet ==
    /\ pc = "c_get"
    /\ \E seen \in positions_get :
         LET found == IF due # <<>>
                      THEN close_matches(seen, None, Head(due).ticket)
                      ELSE close_matches(seen, Opposite(latest_signal), NoTicket)
         IN IF found = <<>> THEN CloseReturns
            ELSE /\ cq' = found
                 /\ pc' = "c_tick"
                 /\ due' = due
    /\ UNCHANGED <<gateway, now, executor, frame, latest_signal, quote,
                   current_time, result, entry, orders, calls, raised,
                   bot_tickets, rep>>

\* trade.py line 94: the price of the offsetting order, from symbol_info_tick.
\* Without a tick the attribute access raises and the except clause (lines
\* 117-118) ends close_trade.
CloseTick ==
    /\ pc = "c_tick"
    /\ \E ok \in BOOLEAN :
         IF ok
         THEN /\ quote' = <<IF Head(cq).type = "buy" THEN bid ELSE ask>>
              /\ pc' = "c_send"
              /\ UNCHANGED <<due, cq, raised, rep>>
         ELSE /\ quote' = NoQuote
              /\ raised' = raised \cup {"close_trade"}
              /\ rep' = NoRep
              /\ CloseReturns
    /\ UNCHANGED <<gateway, now, executor, frame, latest_signal, current_time,
                   result, entry, orders, calls, bot_tickets>>

\* trade.py line 109: order_send of the offsetting order. The terminal closes
\* the position when it accepts the order.
CloseSend ==
    /\ pc = "c_send"
    /\ \E retcode \in Retcodes :
         LET position == Head(cq)
             order == [kind |-> "close", type |-> Opposite(position.type),
                       ticket |-> position.ticket, retcode |-> retcode]
         IN /\ retcode = "done" => position.ticket \in TicketsOf(positions)
            /\ positions' = IF retcode = "done"
                            THEN RemovePosition(positions, position.ticket)
                            ELSE positions
            /\ orders' = Append(orders, order)
            /\ result' = [retcode |-> retcode, order |-> NoTicket]
            /\ rep' = IF due # <<>> \/ retcode # "done" THEN NoRep ELSE rep
    /\ pc' = "c_after"
    /\ quote' = NoQuote
    /\ UNCHANGED <<nextTicket, bid, now, executor, frame, latest_signal, due, cq,
                   current_time, entry, calls, raised, bot_tickets>>

\* trade.py lines 110-115: the result is looked at. Without a result object
\* the attribute access raises and the except clause ends close_trade; else
\* the entry goes when the order was accepted, and the loop goes on.
CloseAfter ==
    /\ pc = "c_after"
    /\ active_trades' = CloseShadow(active_trades, Head(cq).ticket, result.retcode)
    /\ result' = NoResult
    /\ IF result.retcode = "none"
       THEN /\ raised' = raised \cup {"close_trade"}
            /\ CloseReturns
       ELSE /\ raised' = raised
            /\ IF Len(cq) = 1 THEN CloseReturns
               ELSE /\ cq' = Tail(cq)
                    /\ pc' = "c_tick"
                    /\ due' = due
    /\ UNCHANGED <<gateway, now, last_signal, frame, latest_signal, quote,
                   current_time, entry, orders, calls, bot_tickets, rep>>

\* trade.py line 148 or 160: the price of the opening order. Without a tick
\* the attribute access raises; execute_trade has no except clause and the
\* exception reaches main's (main.py line 75).
OpenTick ==
    /\ pc = "x_tick"
    /\ \E ok \in BOOLEAN :
         IF ok
         THEN /\ quote' = <<IF latest_signal = "buy" THEN ask ELSE bid>>
              /\ pc' = "x_send"
              /\ UNCHANGED <<entry, rep, raised>>
         ELSE /\ quote' = NoQuote
              /\ raised' = raised \cup {"execute_trade"}
              /\ rep' = NoRep
              /\ ExecuteReturns("backoff")
    /\ UNCHANGED <<gateway, now, executor, frame, latest_signal, due, cq,
                   current_time, result, orders, calls, bot_tickets>>

\* trade.py line 169: order_send of the opening order. The terminal opens the
\* position, under a new ticket, when it accepts the order.
OpenSend ==
    /\ pc = "x_send"
    /\ \E retcode \in Retcodes :
         LET order == [kind |-> "open", type |-> latest_signal,
                       ticket |-> IF retcode = "done" THEN nextTicket ELSE NoTicket,
                       retcode |-> retcode]
         IN /\ retcode = "done" => nextTicket <= MaxTicket
            /\ positions' = IF retcode = "done"
                            THEN Append(positions,
                                   [ticket |-> nextTicket, type |-> latest_signal,
                                    price_open |-> quote[1], volume |-> trade_amount])
                            ELSE positions
            /\ nextTicket' = IF retcode = "done" THEN nextTicket + 1 ELSE nextTicket
            /\ bot_tickets' = IF retcode = "done"
                              THEN bot_tickets \cup {nextTicket} ELSE bot_tickets
            /\ orders' = Append(orders, order)
            /\ result' = [retcode |-> retcode, order |-> order.ticket]
            /\ rep' = IF retcode # "done" THEN NoRep ELSE rep
    /\ pc' = "x_after"
    /\ UNCHANGED <<bid, now, executor, frame, latest_signal, due, cq, quote,
                   current_time, entry, calls, raised>>

\* trade.py lines 170-176: the result is looked at. Without a result object
\* the attribute access raises and the exception reaches main's except
\* clause; an accepted order is recorded in active_trades, with the clock as
\* it is read then (line 174).
OpenAfter ==
    /\ pc = "x_after"
    /\ active_trades' = IF result.retcode = "none" THEN active_trades
                        ELSE OpenShadow(active_trades, result.retcode,
                                        result.order, quote[1])
    /\ quote' = NoQuote
    /\ IF result.retcode = "none"
       THEN /\ raised' = raised \cup {"execute_trade"}
            /\ result' = NoResult
            /\ ExecuteReturns("backoff")
       ELSE /\ pc' = "x_sig"
            /\ UNCHANGED <<result, entry, raised>>
    /\ UNCHANGED <<gateway, now, last_signal, frame, latest_signal, due, cq,
                   current_time, orders, calls, bot_tickets, rep>>

\* trade.py line 177, or line 179 for an order that was not accepted, and the
\* return of execute_trade.
OpenSignal ==
    /\ pc = "x_sig"
    /\ last_signal' = OpenLastSignal(last_signal, result.retcode, latest_signal)
    /\ result' = NoResult
    /\ ExecuteReturns("manage")
    /\ UNCHANGED <<gateway, now, active_trades, frame, latest_signal, due, cq,
                   quote, current_time, orders, calls, raised, bot_tickets, rep>>

\* main.py line 64, trade.py lines 37-41: manage_trades(SYMBOL) asks
\* positions_get for the list, and returns when it is empty; else it reads
\* the clock (line 41) and goes on to ask for the quote. The list is what the
\* loop of line 44 runs over, and the clock of line 41 what it measures the
\* holding times with, whatever the terminal does and however long it takes
\* meanwhile.
Manage ==
    /\ pc = "manage"
    /\ calls' = Append(calls, "manage")
    /\ \E seen \in positions_get :
         IF Len(seen) = 0
         THEN /\ cq' = cq
              /\ current_time' = current_time
              /\ pc' = "sleep"
         ELSE /\ cq' = seen
              /\ current_time' = <<now>>
              /\ pc' = "m_tick"
    /\ UNCHANGED <<gateway, now, executor, frame, latest_signal, due, quote,
                   result, entry, orders, raised, bot_tickets, rep>>

\* trade.py lines 42-69: symbol_info_tick is asked for the quote, once, and
\* the loop decides for each position of the list, on the clock read at line
\* 41 before the quote was asked for. Without
\* a tick the first position it tracks raises, and the except clause (lines
\* 71-72) ends manage_trades.
ManageTick ==
    /\ pc = "m_tick"
    /\ \E ok \in BOOLEAN :
         LET found == IF ok
                      THEN due_positions(cq, 1, bid, active_trades, current_time[1])
                      ELSE <<>>
             tracked == \E i \in 1..Len(cq) : cq[i].ticket \in DOMAIN active_trades
         IN /\ due' = found
            /\ raised' = IF ~ok /\ tracked
                         THEN raised \cup {"manage_trades"} ELSE raised
            /\ pc' = IF found = <<>> THEN "sleep" ELSE "c_get"
    /\ cq' = <<>>
    /\ current_time' = NoClock
    /\ UNCHANGED <<gateway, now, executor, frame, latest_signal, quote, result,
                   entry, orders, calls, bot_tickets, rep>>

\* main.py lines 69-73: time.sleep(10), then the next iteration. The locals and
\* the histories of the iteration that ended are dropped.
Sleep ==
    /\ pc = "sleep"
    /\ now + SleepNormal <= MaxTime
    /\ now' = now + SleepNormal
    /\ pc' = "fetch"
    /\ bars' = <<>>
    /\ signal_col' = <<>>
    /\ latest_signal' = None
    /\ orders' = <<>>
    /\ calls' = <<>>
    /\ raised' = {}
    /\ UNCHANGED <<gateway, executor, locals, entry, bot_tickets, rep>>

\* A loop whose except clause sleeps the normal interval.
Backoff_NormalInterval ==
    /\ pc = "backoff"
    /\ now + SleepNormal <= MaxTime
    /\ now' = now + SleepNormal
    /\ pc' = "fetch"
    /\ bars' = <<>>
    /\ signal_col' = <<>>
    /\ latest_signal' = None
    /\ orders' = <<>>
    /\ calls' = <<>>
    /\ raised' = {}
    /\ UNCHANGED <<gateway, executor, locals, entry, bot_tickets, rep>>

\* main.py lines 75-77: the except clause, time.sleep(60), then the next iteration.
Backoff ==
    /\ pc = "backoff"
    /\ now + SleepBackoff <= MaxTime
    /\ now' = now + SleepBackoff
    /\ pc' = "fetch"
    /\ bars' = <<>>
    /\ signal_col' = <<>>
    /\ latest_signal' = None
    /\ orders' = <<>>
    /\ calls' = <<>>
    /\ raised' = {}
    /\ UNCHANGED <<gateway, executor, locals, entry, bot_tickets, rep>>

\* ------------------------------------------------------------ the gateway
\* The terminal is the environment of the program: positions_get and
\* symbol_info_tick report whatever its state is when they are called, and it
\* changes between any two steps of the program.
\*
\* A position on the symbol opened at the terminal by someone else.
ExternalOpen ==
    /\ pc # "exited"
    /\ nextTicket <= MaxTicket
    /\ \E d \in Directions :
         positions' = Append(positions,
                        [ticket |-> nextTicket, type |-> d,
                         price_open |-> IF d = "buy" THEN ask ELSE bid,
                         volume |-> trade_amount])
    /\ nextTicket' = nextTicket + 1
    /\ rep' = NoRep
    /\ UNCHANGED <<bid, now, executor, pc, frame, latest_signal, locals, entry,
                   orders, calls, raised, bot_tickets>>

\* A position closed at the terminal (by hand, stop-out), not by close_trade.
GatewayClose ==
    /\ pc # "exited"
    /\ \E t \in TicketsOf(positions) : positions' = RemovePosition(positions, t)
    /\ rep' = NoRep
    /\ UNCHANGED <<nextTicket, bid, now, executor, pc, frame, latest_signal,
                   locals, entry, orders, calls, raised, bot_tickets>>

\* The quote moves.
PriceMove ==
    /\ pc # "exited"
    /\ \E p \in PriceLevels \ {bid} : bid' = p
    /\ rep' = NoRep
    /\ UNCHANGED <<positions, nextTicket, now, executor, pc, frame, latest_signal,
                   locals, entry, orders, calls, raised, bot_tickets>>

\* The clock. datetime.now() is read afresh wherever the program uses it
\* (trade.py lines 41 and 174), and time goes by while the program runs and
\* while a request to the terminal or to the data feed is being answered, not
\* only in the two sleeps of main. (Time that goes by during a sleep beyond
\* its length shows at the first step after it.)
TimePasses ==
    /\ pc \notin {"sleep", "backoff", "exited"}
    /\ now + Stall <= MaxTime
    /\ now' = now + Stall
    /\ UNCHANGED <<gateway, executor, pc, frame, latest_signal, locals, entry,
                   orders, calls, raised, bot_tickets, rep>>

\* main.py lines 19-26: SIGINT or SIGTERM runs signal_handler, whose
\* sys.exit(0) raises SystemExit wherever the program stands; no except clause
\* of the program catches it (they catch Exception), so the process ends
\* there, and what it held in its frames and its histories goes with it.
Terminate ==
    /\ pc # "exited"
    /\ pc' = "exited"
    /\ bars' = <<>>
    /\ signal_col' = <<>>
    /\ latest_signal' = None
    /\ due' = <<>>
    /\ cq' = <<>>
    /\ quote' = NoQuote
    /\ current_time' = NoClock
    /\ result' = NoResult
    /\ entry' = NoEntry
    /\ orders' = <<>>
    /\ calls' = <<>>
    /\ raised' = {}
    /\ rep' = NoRep
    /\ UNCHANGED <<gateway, now, executor, bot_tickets>>

Next ==
    \/ FetchNone
    \/ FetchData
    \/ ExecuteIgnored
    \/ ExecuteStart
    \/ CloseGet
    \/ CloseTick
    \/ CloseSend
    \/ CloseAfter
    \/ OpenTick
    \/ OpenSend
    \/ OpenAfter
    \/ OpenSignal
    \/ Manage
    \/ ManageTick
    \/ Sleep
    \/ Backoff
    \/ ExternalOpen
    \/ GatewayClose
    \/ PriceMove
    \/ TimePasses
    \/ Terminate

Spec == Init /\ [][Next]_vars

\* ------------------------------------------------ a loop that never stops
\* The loop of main runs until the process is signalled, and each of its two
\* sleeps moves the clock. The program reads the clock in one place, the
\* holding time (datetime.now() - start_time).total_seconds() >= 60 of
\* trade.py lines 49-56, so a state is what it is by the differences
\* now - start_time and not by the origin the clock is counted from. MaxTime
\* bounds the clock value the model writes down: a sleep, or a wait inside a
\* cycle, that would end past MaxTime ends with now = MaxTime and with the
\* origin of the clock moved on by the rest of it, which sets every
\* start_time back by that rest.
\* A start_time that falls HoldSecs or more behind now is written as
\* now - HoldSecs: the holding time is 60 s or more either way.
RebasedTo(active, shift, floor) ==
    [t \in DOMAIN active |->
        [start_time |-> IF active[t].start_time - shift < floor
                        THEN floor
                        ELSE active[t].start_time - shift,
         entry_price |-> active[t].entry_price]]

Rebased(active, late) == RebasedTo(active, late, MaxTime - HoldSecs)

\* main.py line 73: time.sleep(10) ending past MaxTime.
SleepPastBound ==
    /\ pc = "sleep"
    /\ now + SleepNormal > MaxTime
    /\ pc' = "fetch"
    /\ now' = MaxTime
    /\ active_trades' = Rebased(active_trades, now + SleepNormal - MaxTime)
    /\ bars' = <<>>
    /\ signal_col' = <<>>
    /\ latest_signal' = None
    /\ orders' = <<>>
    /\ calls' = <<>>
    /\ raised' = {}
    /\ UNCHANGED <<gateway, last_signal, locals, entry, bot_tickets, rep>>

\* main.py lines 75-77: time.sleep(60) in the except clause ending past
\* MaxTime.
BackoffPastBound ==
    /\ pc = "backoff"
    /\ now + SleepBackoff > MaxTime
    /\ pc' = "fetch"
    /\ now' = MaxTime
    /\ active_trades' = Rebased(active_trades, now + SleepBackoff - MaxTime)
    /\ bars' = <<>>
    /\ signal_col' = <<>>
    /\ latest_signal' = None
    /\ orders' = <<>>
    /\ calls' = <<>>
    /\ raised' = {}
    /\ UNCHANGED <<gateway, last_signal, locals, entry, bot_tickets, rep>>

\* Time going by past MaxTime while the program runs or waits (TimePasses):
\* the origin moves on in the same way. While manage_trades holds the clock
\* it read at line 41, that reading goes back with the start_times, so that
\* every current_time - start_time stays what it is; a reading that falls
\* HoldSecs or more behind now is written as now - HoldSecs (every position
\* it is compared with was opened before it and is then held 60 s or more at
\* any later reading), and a start_time that falls HoldSecs or more behind
\* the reading as the reading - HoldSecs.
TimePassesPastBound ==
    /\ pc \notin {"sleep", "backoff", "exited"}
    /\ now + Stall > MaxTime
    /\ now' = MaxTime
    /\ LET late == now + Stall - MaxTime
           read == IF current_time = NoClock THEN MaxTime
                   ELSE IF current_time[1] - late < MaxTime - HoldSecs
                        THEN MaxTime - HoldSecs
                        ELSE current_time[1] - late
           shift == IF current_time = NoClock THEN late
                    ELSE current_time[1] - read
       IN /\ current_time' = IF current_time = NoClock THEN NoClock ELSE <<read>>
          /\ active_trades' = RebasedTo(active_trades, shift, read - HoldSecs)
    /\ UNCHANGED <<gateway, last_signal, pc, frame, latest_signal, due, cq, quote,
                   result, entry, orders, calls, raised, bot_tickets, rep>>

\* One step of the program itself.
LoopStep ==
    \/ FetchNone
    \/ FetchData
    \/ ExecuteIgnored
    \/ ExecuteStart
    \/ CloseGet
    \/ CloseTick
    \/ CloseSend
    \/ CloseAfter
    \/ OpenTick
    \/ OpenSend
    \/ OpenAfter
    \/ OpenSignal
    \/ Manage
    \/ ManageTick
    \/ Sleep
    \/ Backoff
    \/ SleepPastBound
    \/ BackoffPastBound

\* The account is traded by the program alone: the terminal closes positions
\* and moves the quote, time goes by, and nobody else opens a position on
\* the symbol.
NextLive ==
    \/ LoopStep
    \/ GatewayClose
    \/ PriceMove
    \/ TimePasses
    \/ TimePassesPastBound

\* An offsetting order the gateway accepts.
CloseAccepted == CloseSend /\ result'.retcode = "done"

\* The process is not signalled and is scheduled (main's while True, lines
\* 33-77), and a gateway that is sent close orders again and again accepts
\* one of them.
Fairness ==
    /\ WF_vars(LoopStep)
    /\ SF_vars(CloseAccepted)

SpecLive == Init /\ [][NextLive]_vars /\ Fairness

\* ------------------------------------------------- apply_strategy alone
\* apply_strategy as a function of the frame it is given: every series of up
\* to MaxBars closes, drawn from low prices (where one point is a strong
\* trend) or from high prices two points apart (where the averages can cross
\* with a trend below min_trend_strength).
StrategyInputs ==
    UNION {[1..n -> SmallCloses] \cup [1..n -> LargeCloses] : n \in 1..MaxBars}

InitStrategy ==
    /\ bars \in StrategyInputs
    /\ signal_col = <<>>
    /\ pc = "strategy"
    /\ positions = <<>>
    /\ nextTicket = 1
    /\ bid = BasePrice
    /\ now = 0
    /\ active_trades = NoTrades
    /\ last_signal = None
    /\ latest_signal = None
    /\ due = <<>>
    /\ cq = <<>>
    /\ quote = NoQuote
    /\ current_time = NoClock
    /\ result = NoResult
    /\ entry = NoEntry
    /\ orders = <<>>
    /\ calls = <<>>
    /\ raised = {}
    /\ bot_tickets = {}
    /\ rep = NoRep

\* strategy.py lines 7-48: data = apply_strategy(data).
ApplyStrategy ==
    /\ pc = "strategy"
    /\ signal_col' = signal_column(bars)
    /\ pc' = "applied"
    /\ UNCHANGED <<gateway, now, executor, bars, latest_signal, locals, entry,
                   orders, calls, raised, bot_tickets, rep>>

NextStrategy == ApplyStrategy

SpecStrategy == InitStrategy /\ [][NextStrategy]_vars

\* ----------------------------------------------------------------- claims
\* The steps in which a TradeExecutor method is called, decides or returns,
\* and the step that sends an order.
ExecuteCalled == pc = "execute" /\ pc' \notin {"execute", "exited"}
ExecuteReturned == InExecute /\ pc' \in {"manage", "backoff"}
ManageDecides == pc = "m_tick" /\ pc' \in {"sleep", "c_get"}
CloseReturned == InManage /\ due # <<>> /\ due' = Tail(due) /\ pc' # "exited"
CloseChecked == pc = "c_after" /\ pc' \notin {"c_after", "exited"}
OrderSent == Len(orders') = Len(orders) + 1
LastOrder(os) == os[Len(os)]
DueTickets(d) == {d[k].ticket : k \in 1..Len(d)}
HasOpen(pos, d) == \E i \in 1..Len(pos) : pos[i].type = d
Elapsed(t) == now - active_trades[t].start_time
\* time_open of line 49, on the clock manage_trades read at line 41.
time_open(t) == current_time[1] - active_trades[t].start_time

\* manage_trades was given a quote by symbol_info_tick (line 42), or tracks
\* none of the positions of its list and never looks at the quote.
QuoteSeen == "manage_trades" \notin raised'

\* The profit of line 53 for a position, from a tick whose bid is given.
ProfitAt(position, tick) ==
    calculate_profit(position, IF position.type = "buy" THEN tick ELSE tick + Spread)

\* The position with ticket t as the gateway reports it.
PositionOf(t) == positions[CHOOSE i \in 1..Len(positions) : positions[i].ticket = t]

\* C1 (as claimed): when execute_trade(D) is called twice in a row, the first
\* time with no position open on the symbol, nothing else happening in between
\* and the gateway filling every order it is sent, then once the second call
\* has returned exactly one position is open, in direction D, and the second
\* call sent no order.
C1_RepeatedSignalOpensOnePosition ==
    (rep.n = 2 /\ ~InExecute) =>
        /\ Len(positions) = 1
        /\ positions[1].type = rep.sig
        /\ orders = <<>>

\* C2 (as claimed): a call execute_trade(D) that began while the gateway
\* reported an open position in direction D sends no order at all.
C2_NoOrderWhenSameDirectionOpen ==
    [][(InExecute /\ \E i \in DOMAIN entry.types : entry.types[i] = latest_signal)
         => ~OrderSent]_vars

\* C3 (as claimed, in the case of a single open position): execute_trade
\* called with the signal opposite to the one open position sends a close
\* order and then an opening order, so it does not return before it has gone
\* on to close_trade.
C3_OppositeSignalOneCloseOneOpen ==
    [][(ExecuteCalled /\ Len(positions) = 1
          /\ positions[1].type = Opposite(latest_signal))
         => pc' = "c_get"]_vars

\* The order just sent is for a position execute_trade opened earlier in the
\* same iteration of the loop.
OpenedThisCycle(os) ==
    \E j \in 1..(Len(os) - 1) :
        /\ os[j].kind = "open"
        /\ os[j].retcode = "done"
        /\ os[j].ticket = LastOrder(os).ticket

\* C4 (as claimed): every order manage_trades sends is a close order for a
\* shadow-tracked position held for at least HoldSecs, and never for a
\* position that execute_trade opened in the same iteration.
C4_NoCloseBeforeHold ==
    [][(InManage /\ OrderSent) =>
          /\ LastOrder(orders').kind = "close"
          /\ LastOrder(orders').ticket \in DOMAIN active_trades
          /\ Elapsed(LastOrder(orders').ticket) >= HoldSecs
          /\ ~ OpenedThisCycle(orders')]_vars

\* C4 (amended): manage_trades calls close_trade only for positions whose
\* time_open, on the clock it read, is HoldSecs or more, whatever the profit;
\* every order it sends is a close order for a shadow-tracked position held
\* for at least HoldSecs when the order goes out; and a position opened in
\* the same iteration is among them only when HoldSecs or more went by in
\* that iteration between the clock read of its start_time and the clock
\* read of manage_trades.
C4_NoCloseBelowHold ==
    [][/\ ManageDecides =>
             \A k \in 1..Len(due') :
                /\ due'[k].ticket \in DOMAIN active_trades
                /\ time_open(due'[k].ticket) >= HoldSecs
       /\ (InManage /\ OrderSent) =>
             /\ LastOrder(orders').kind = "close"
             /\ LastOrder(orders').ticket \in DOMAIN active_trades
             /\ Elapsed(LastOrder(orders').ticket) >= HoldSecs]_vars

\* C4 witness: manage_trades has sent the close order for a position that
\* execute_trade opened in this very iteration, HoldSecs or more before.
C4_Witness ==
    /\ pc = "c_after" /\ due # <<>>
    /\ LastOrder(orders).kind = "close"
    /\ LastOrder(orders).ticket = Head(due).ticket
    /\ OpenedThisCycle(orders)
    /\ Head(due).ticket \in DOMAIN active_trades
    /\ Elapsed(Head(due).ticket) >= HoldSecs

\* C5: a position opened by execute_trade has its shadow entry whenever the
\* gateway reports it to manage_trades; when manage_trades is given the quote
\* and the position, held for at least HoldSecs, has a profit of StopLoss or
\* less, manage_trades calls close_trade for its ticket; and that call ends
\* with the close order for the ticket sent, unless the gateway reports no
\* position with the ticket to close_trade or gives no quote for the order.
C5_StopLossCloses ==
    [][/\ ManageDecides =>
             \A i \in 1..Len(cq) :
                cq[i].ticket \in bot_tickets =>
                   /\ cq[i].ticket \in DOMAIN active_trades
                   /\ (/\ QuoteSeen
                       /\ time_open(cq[i].ticket) >= HoldSecs
                       /\ ProfitLE(ProfitAt(cq[i], bid), StopLoss))
                      => cq[i].ticket \in DueTickets(due')
       /\ CloseReturned =>
             \/ /\ pc = "c_get"
                /\ cq' = <<>>
             \/ /\ pc = "c_tick"
                /\ "close_trade" \in raised'
             \/ /\ pc = "c_after"
                /\ LastOrder(orders).kind = "close"
                /\ LastOrder(orders).ticket = Head(due).ticket]_vars

\* C5 witness: manage_trades has sent the close order for a position that
\* execute_trade opened and that fell under the stop-loss rule.
C5_Witness ==
    /\ pc = "c_after" /\ due # <<>>
    /\ Head(due).why = "stop_loss"
    /\ Head(due).ticket \in bot_tickets
    /\ LastOrder(orders).kind = "close"
    /\ LastOrder(orders).ticket = Head(due).ticket

\* C6: when close_trade looks at the result of the offsetting order of a
\* position, the ticket is no key of active_trades afterwards if the gateway
\* accepted the order, active_trades is as before if it did not, and the
\* entry of every other ticket is as before in both cases; no other step of
\* close_trade touches active_trades.
C6_ShadowFollowsClose ==
    [][/\ CloseChecked =>
             /\ result.retcode = "done"
                   => Head(cq).ticket \notin DOMAIN active_trades'
             /\ result.retcode # "done" => active_trades' = active_trades
             /\ DOMAIN active_trades' \subseteq DOMAIN active_trades
             /\ \A u \in DOMAIN active_trades \ {Head(cq).ticket} :
                   /\ u \in DOMAIN active_trades'
                   /\ active_trades'[u] = active_trades[u]
       /\ pc \in ClosePcs \ {"c_after"} => active_trades' = active_trades]_vars

\* C6 witness: close_trade has returned after the gateway accepted the close
\* of a position execute_trade had opened: its entry is gone, the entry of
\* another ticket is still there.
C6_Witness ==
    /\ pc \in {"sleep", "c_get", "x_tick"}
    /\ orders # <<>>
    /\ LastOrder(orders).kind = "close" /\ LastOrder(orders).retcode = "done"
    /\ LastOrder(orders).ticket \in bot_tickets
    /\ LastOrder(orders).ticket \notin DOMAIN active_trades
    /\ active_trades # NoTrades

\* execute_trade returns from a call whose opening order the gateway rejected.
RejectedReturn == pc = "x_sig" /\ result.retcode = "rejected" /\ pc' = "manage"
OneOpenOrder(os) == Cardinality({k \in 1..Len(os) : os[k].kind = "open"}) = 1

\* C7 (as claimed): when the opening order is rejected, active_trades and
\* last_signal are after the call what they were before it, and the call
\* sent no second opening order.
C7_RejectedOpenChangesNothing ==
    [][RejectedReturn =>
          /\ DOMAIN active_trades' = entry.tracked
          /\ last_signal' = last_signal
          /\ OneOpenOrder(orders')]_vars

\* C7 (amended): when the opening order is rejected, last_signal is as before
\* the call, no shadow entry is added or altered, the entries removed are those
\* of the opposite-direction positions whose close order the gateway accepted
\* in the call, and no second opening order is sent.
C7_RejectedOpenKeepsSignal ==
    [][/\ RejectedReturn =>
             /\ last_signal' = last_signal
             /\ active_trades' = active_trades
             /\ DOMAIN active_trades' \subseteq entry.tracked
             /\ \A t \in entry.tracked \ DOMAIN active_trades' :
                   \E k \in 1..Len(orders) :
                      /\ orders[k].kind = "close" /\ orders[k].retcode = "done"
                      /\ orders[k].ticket = t
                      /\ orders[k].type = latest_signal
             /\ OneOpenOrder(orders')
       /\ (InExecute /\ pc # "x_sig") => last_signal' = last_signal
       /\ (InExecute /\ pc # "x_after") =>
             /\ DOMAIN active_trades' \subseteq DOMAIN active_trades
             /\ \A t \in DOMAIN active_trades' :
                   active_trades'[t] = active_trades[t]
       /\ (pc = "x_after" /\ result.retcode = "rejected")
             => active_trades' = active_trades]_vars

\* C7 witness: execute_trade closed a tracked position, had its opening order
\* rejected and has returned.
C7_Witness ==
    /\ pc = "manage"
    /\ calls = <<"execute">>
    /\ Len(orders) = 2
    /\ orders[1].kind = "close" /\ orders[1].retcode = "done"
    /\ orders[1].ticket \in bot_tickets
    /\ orders[2].kind = "open" /\ orders[2].retcode = "rejected"
    /\ last_signal = Opposite(orders[1].type)

\* C8 (as claimed): manage_trades reconciles the shadow map with the list the
\* gateway gives it: when it returns at once with no position open the shadow
\* map is empty, and else, once it has the list and has gone through it,
\* every ticket of the shadow map is the ticket of a position of that list.
C8_ShadowReconciled ==
    [][/\ (pc = "manage" /\ pc' = "sleep" /\ positions = <<>>)
             => active_trades' = NoTrades
       /\ ManageDecides => DOMAIN active_trades' \subseteq TicketsOf(cq)]_vars

\* C9 (as claimed): when execute_trade returns at once because the signal
\* equals last_signal, a position in the direction of the signal is open.
C9_SuppressedOnlyWhileOpen ==
    [][(pc = "execute" /\ pc' = "manage" /\ latest_signal = last_signal)
         => HasOpen(positions, latest_signal)]_vars

\* C10 (as claimed): an iteration that reaches its normal sleep has called
\* manage_trades exactly once, after any execute_trade.
C10_ManageEveryCycle ==
    pc = "sleep" =>
        /\ Len(calls) >= 1
        /\ calls[Len(calls)] = "manage"
        /\ Cardinality({k \in 1..Len(calls) : calls[k] = "manage"}) = 1

\* C11 (as claimed): a termination signal ends the loop only between cycles:
\* the process exits while the loop waits (before a cycle starts or during the
\* sleep that ends one), never after a cycle has fetched its data and before
\* that cycle has reached its sleep.
C11_ExitOnlyBetweenCycles ==
    [][pc' = "exited" => pc \in {"fetch", "sleep", "backoff", "exited"}]_vars

\* C12 (as claimed): a cycle in which a call made by the loop raised an
\* exception does not end in the normal sleep.
C12_AnyExceptionBacksOff ==
    pc = "sleep" => raised = {}

\* C12 (amended): the loop enters its backoff exactly when an exception leaves
\* execute_trade (no tick for the opening order, or no result object from its
\* order_send); it then sleeps SleepBackoff and starts the next cycle. An
\* exception raised in close_trade or in manage_trades is caught there and
\* the cycle goes on to the normal sleep of SleepNormal, followed by the next
\* cycle. No exception ends the process.
C12_BackoffOnLoopException ==
    [][/\ (pc' = "backoff" /\ pc # "backoff")
             => /\ pc \in {"x_tick", "x_after"}
                /\ "execute_trade" \in raised'
       /\ ("execute_trade" \in raised' /\ "execute_trade" \notin raised)
             => pc' = "backoff"
       /\ (raised' # raised /\ raised' # {}) => pc' # "exited"
       /\ (\E m \in {"close_trade", "manage_trades"} :
              m \in raised' /\ m \notin raised)
             => pc' \in {"sleep", "c_get", "x_tick"}
       /\ (pc = "backoff" /\ pc' \notin {"backoff", "exited"})
             => (pc' = "fetch" /\ now' = now + SleepBackoff)
       /\ (pc = "sleep" /\ pc' \notin {"sleep", "exited"})
             => (pc' = "fetch" /\ now' = now + SleepNormal)]_vars

\* C12 witness: the opening order of execute_trade raised after the call had
\* sent a close order, the loop stands in its except clause and the clock
\* leaves room for the backoff sleep.
C12_Witness ==
    /\ pc = "backoff"
    /\ "execute_trade" \in raised
    /\ Len(orders) >= 1 /\ orders[1].kind = "close"
    /\ now + SleepBackoff <= MaxTime

\* The claim's own terms, written out bar by bar: three and seven times the
\* means of the last 3 and the last 7 closes at index i (1-based, i >= 7).
ThreeBarSum(c, i) == c[i] + c[i-1] + c[i-2]
SevenBarSum(c, i) == c[i] + c[i-1] + c[i-2] + c[i-3] + c[i-4] + c[i-5] + c[i-6]

\* 1 when the 3-bar mean exceeds the 7-bar mean, 0 otherwise and where a mean
\* is undefined: s/3 > l/7 iff 7s > 3l.
CrossoverIndicator(c, i) ==
    IF i >= 7 /\ 7 * ThreeBarSum(c, i) > 3 * SevenBarSum(c, i) THEN 1 ELSE 0

\* |short - long| / long * 100 >= 0.001, long > 0:
\* |7s - 3l| / (3l) * 100 >= 1/1000.
TrendAtLeastMin(c, i) ==
    /\ i >= 7
    /\ Abs(7 * ThreeBarSum(c, i) - 3 * SevenBarSum(c, i)) * 100 * 1000
          >= 3 * SevenBarSum(c, i)

CrossesUp(c, i) ==
    i > 1 /\ CrossoverIndicator(c, i - 1) = 0 /\ CrossoverIndicator(c, i) = 1
CrossesDown(c, i) ==
    i > 1 /\ CrossoverIndicator(c, i - 1) = 1 /\ CrossoverIndicator(c, i) = 0

\* C13: after apply_strategy the signal at every index is 'buy' exactly when
\* the crossover indicator goes from 0 to 1 there with a trend strength of at
\* least 0.001, 'sell' exactly when it goes from 1 to 0 with such a strength,
\* and none otherwise; it is none at the first index and everywhere in a
\* series of fewer than 7 bars.
C13_SignalIsCrossoverWithTrend ==
    pc = "applied" =>
        /\ Len(signal_col) = Len(bars)
        /\ \A i \in 1..Len(bars) :
              /\ signal_col[i] = "buy"
                    <=> (CrossesUp(bars, i) /\ TrendAtLeastMin(bars, i))
              /\ signal_col[i] = "sell"
                    <=> (CrossesDown(bars, i) /\ TrendAtLeastMin(bars, i))
              /\ signal_col[i] \in {"buy", "sell", None}
        /\ signal_col[1] = None
        /\ Len(bars) < 7 => \A i \in 1..Len(bars) : signal_col[i] = None

\* C13 witness: a series of high prices on which apply_strategy gave a buy
\* at one index and dropped a downward crossing for its weak trend at another.
C13_Witness ==
    /\ pc = "applied"
    /\ \E i \in 1..Len(bars) : signal_col[i] = "buy"
    /\ \E i \in 1..Len(bars) :
          /\ CrossesDown(bars, i) /\ ~ TrendAtLeastMin(bars, i)
          /\ signal_col[i] = None

\* The closes of the claim's example.
FlatThenUp == <<1, 1, 1, 1, 1, 1, 1, 2>>

\* C14: in a cycle that fetched the closes 1,1,1,1,1,1,1,2 apply_strategy
\* gave 'buy' at the last index (index 7 counted from 0) and none at every
\* index before it, and the loop calls execute_trade with 'buy': it stands
\* before that call or has made it as the first call of the cycle.
C14_FlatThenUpBuys ==
    bars = FlatThenUp =>
        /\ Len(signal_col) = 8
        /\ signal_col[8] = "buy"
        /\ \A i \in 1..7 : signal_col[i] = None
        /\ latest_signal = "buy"
        /\ \/ pc = "execute" /\ calls = <<>>
           \/ Len(calls) >= 1 /\ calls[1] = "execute"

\* C14 witness: the example was fetched and execute_trade, called with 'buy',
\* opened a buy position and returned.
C14_Witness ==
    /\ bars = FlatThenUp
    /\ pc = "manage"
    /\ calls = <<"execute">>
    /\ Len(orders) = 1 /\ orders[1].kind = "open" /\ orders[1].type = "buy"
    /\ orders[1].retcode = "done"
    /\ HasOpen(positions, "buy")

\* The three exit conditions of the claim on the profit calculate_profit gave.
ExitDue(profit) ==
    ProfitGT(profit, 0) \/ ProfitLE(profit, StopLoss) \/ ProfitGE(profit, ProfitTarget)

\* C15: when manage_trades is given the quote, it calls close_trade for a
\* shadow-tracked position of its list held for at least HoldSecs exactly
\* when the profit is positive, at or below the stop-loss, or at or above the
\* profit target, so a position with a profit above the stop-loss and at most
\* 0 is passed over; every close_trade call it makes is for a position that
\* meets one of the three conditions; and every order it sends is the close
\* order of the ticket of such a call.
C15_ExitPolicy ==
    [][/\ (ManageDecides /\ QuoteSeen) =>
             \A i \in 1..Len(cq) :
                (/\ cq[i].ticket \in DOMAIN active_trades
                 /\ time_open(cq[i].ticket) >= HoldSecs)
                => (cq[i].ticket \in DueTickets(due')
                      <=> ExitDue(ProfitAt(cq[i], bid)))
       /\ ManageDecides =>
             \A k \in 1..Len(due') :
                /\ due'[k].why \in {"profit", "stop_loss", "target"}
                /\ \E i \in 1..Len(cq) :
                      /\ cq[i].ticket = due'[k].ticket
                      /\ cq[i].ticket \in DOMAIN active_trades
                      /\ time_open(cq[i].ticket) >= HoldSecs
                      /\ ExitDue(ProfitAt(cq[i], bid))
       /\ (InManage /\ OrderSent) =>
             /\ LastOrder(orders').kind = "close"
             /\ LastOrder(orders').ticket = Head(due).ticket]_vars

\* C15 witness: manage_trades has sent the close order of a position whose
\* loss was the stop-loss amount to the cent, neither more nor less.
C15_Witness ==
    /\ pc = "c_after" /\ due # <<>>
    /\ Head(due).why = "stop_loss"
    /\ LastOrder(orders).ticket = Head(due).ticket
    /\ ProfitGE(ProfitAt(Head(cq), bid), StopLoss)
    /\ ProfitLE(ProfitAt(Head(cq), bid), StopLoss)

\* C16: manage_trades leaves alone every position whose ticket is not a key
\* of active_trades: it calls close_trade for tracked tickets only and every
\* order it sends is for the ticket of such a call; last_signal keeps its
\* value throughout; and active_trades changes only by losing the entry of
\* the ticket whose close order the gateway has just accepted.
C16_UntrackedLeftAlone ==
    [][/\ ManageDecides => DueTickets(due') \subseteq DOMAIN active_trades
       /\ (InManage /\ OrderSent) =>
             /\ LastOrder(orders').ticket = Head(due).ticket
             /\ LastOrder(orders').ticket \in DOMAIN active_trades
       /\ (pc = "manage" \/ InManage) =>
             /\ last_signal' = last_signal
             /\ active_trades' # active_trades =>
                   /\ pc = "c_after" /\ result.retcode = "done"
                   /\ Head(cq).ticket = Head(due).ticket
                   /\ active_trades' = DropKey(active_trades, Head(due).ticket)]_vars

\* C16 witness: manage_trades has sent the close order of a tracked position
\* while an untracked one, opened by someone else, is open at a profit that
\* meets an exit condition.
C16_Witness ==
    /\ pc = "c_after" /\ due # <<>>
    /\ LastOrder(orders).kind = "close"
    /\ LastOrder(orders).ticket \in DOMAIN active_trades
    /\ \E i \in 1..Len(positions) :
          /\ positions[i].ticket \notin DOMAIN active_trades
          /\ positions[i].ticket \notin bot_tickets
          /\ ExitDue(ProfitAt(positions[i], bid))

\* manage_trades has just had its close order for the tracked ticket t refused.
CloseFailed(t) ==
    /\ pc = "c_after" /\ due # <<>>
    /\ result.retcode = "rejected"
    /\ Head(cq).ticket = t
    /\ t \in DOMAIN active_trades
    /\ t \in TicketsOf(positions)

\* The exit condition of the tracked open position t no longer holds.
ExitLapsed(t) ==
    /\ t \in DOMAIN active_trades
    /\ t \in TicketsOf(positions)
    /\ ~ ExitDue(ProfitAt(PositionOf(t), bid))

\* C17 (as claimed): once manage_trades has had a close refused, and with the
\* loop cycling and the gateway accepting one of the close orders it is sent
\* again and again, the position is eventually closed and its shadow entry
\* removed. (The formula also lets the claim off when the position is closed
\* at the terminal or its exit condition lapses.)
C17_FailedCloseEventuallyCloses ==
    \A t \in 1..MaxTicket :
        CloseFailed(t) ~> \/ t \notin DOMAIN active_trades
                          \/ t \notin TicketsOf(positions)
                          \/ ExitLapsed(t)

\* C18: last_signal is None at the start; it changes only when execute_trade
\* has had its opening order accepted, and then holds the direction of that
\* order; no step sets it back to None; a key is added to active_trades only
\* by such a call, the ticket of the accepted order, just before it sets
\* last_signal, and by no other step.
C18_LastSignalLifecycle ==
    /\ last_signal = None
    /\ active_trades = NoTrades
    /\ [][/\ last_signal' # last_signal =>
                /\ pc = "x_sig" /\ result.retcode = "done"
                /\ last_signal' = latest_signal
                /\ LastOrder(orders).kind = "open"
                /\ LastOrder(orders).type = last_signal'
                /\ result.order \in DOMAIN active_trades
          /\ (pc = "x_sig" /\ result.retcode = "done" /\ pc' = "manage")
                => last_signal' = latest_signal
          /\ last_signal # None => last_signal' # None
          /\ DOMAIN active_trades' \ DOMAIN active_trades # {} =>
                /\ pc = "x_after" /\ result.retcode = "done"
                /\ pc' = "x_sig"
                /\ DOMAIN active_trades' \ DOMAIN active_trades = {result.order}
                /\ LastOrder(orders).ticket = result.order
          /\ (pc = "x_after" /\ result.retcode = "done" /\ pc' = "x_sig")
                => result.order \in DOMAIN active_trades']_vars

\* C18 witness: an accepted buy has set last_signal and added its entry, and
\* a later call whose sell order was rejected has left last_signal alone.
C18_Witness ==
    /\ pc = "manage"
    /\ last_signal = "buy"
    /\ Len(orders) >= 1
    /\ LastOrder(orders).kind = "open" /\ LastOrder(orders).retcode = "rejected"
    /\ LastOrder(orders).type = "sell"
    /\ active_trades # NoTrades

\* C19 (as claimed): as long as every position the gateway ever opened on the
\* symbol was opened by execute_trade, all open positions have one direction.
C19_OneDirectionOnly ==
    bot_tickets = 1..(nextTicket - 1)
        => \A i, j \in 1..Len(positions) : positions[i].type = positions[j].type

\* The step in which fetch_data returned None, and the sleep ending that cycle.
NoDataStep == pc = "fetch" /\ pc' \notin {"fetch", "exited"} /\ bars' = <<>>
NoDataSleep == pc = "sleep" /\ bars = <<>> /\ pc' \notin {"sleep", "exited"}

\* C20: in a cycle whose fetch_data returned None the loop goes straight to
\* its normal sleep: execute_trade is not called and no order is sent,
\* active_trades and last_signal are as before, no exception is raised and
\* the loop does not enter its except clause, and the sleep that follows
\* lasts SleepNormal, after which the next cycle starts.
C20_NoDataCycle ==
    [][/\ NoDataStep
             => /\ pc' = "sleep"
                /\ calls' = <<>>
                /\ orders' = <<>>
                /\ raised' = {}
                /\ UNCHANGED <<active_trades, last_signal, positions, nextTicket>>
       /\ (pc = "sleep" /\ bars = <<>>)
             => /\ calls' = <<>> /\ orders' = <<>> /\ raised' = {}
                /\ UNCHANGED <<active_trades, last_signal>>
       /\ NoDataSleep
             => /\ pc' = "fetch"
                /\ now' = now + SleepNormal]_vars

\* C20 witness: a cycle without data ended at its sleep with no call made,
\* while the executor tracks a position and remembers a signal, and the clock
\* leaves room for the sleep.
C20_Witness ==
    /\ pc = "sleep"
    /\ bars = <<>>
    /\ calls = <<>> /\ orders = <<>>
    /\ raised = {}
    /\ active_trades # NoTrades
    /\ last_signal \in Directions
    /\ now + SleepNormal <= MaxTime
====
